---- MODULE Spec2Model ----
(***************************************************************************)
(* A model of the yarchi CHIP-8 interpreter: the machine state of          *)
(* interpreter/chip8.rs, the instruction decoder of chip8/instruction.rs,  *)
(* the program counter of chip8/program_counter.rs, the opcode handlers    *)
(* of chip8/operations.rs and the host loop of interpreter.rs.             *)
(*                                                                         *)
(* Spec is the machine alone: one action, Step, is one call of             *)
(* Chip8::run_instruction.  SpecHost is Interpreter::run: one action per   *)
(* function the loop calls, HostRunInstruction being the same call of      *)
(* run_instruction made from inside the loop.                              *)
(***************************************************************************)
EXTENDS Integers, Sequences, FiniteSets, TLC

VARIABLES
    memory,        \* Chip8.memory: [u8; 4096]
    pc,            \* Chip8.pc: ProgramCounter(u16)
    v,             \* Chip8.v: [u8; 16]
    i,             \* Chip8.i: u16
    stack,         \* Chip8.stack: Vec<u16>
    display,       \* Chip8.screen.display: [bool; 2048]
    refresh,       \* Chip8.screen.refresh
    delay_timer,   \* Chip8.delay_timer
    sound_timer,   \* Chip8.sound_timer
    input,         \* Chip8.input: Vec<u8>
    c48_mode,      \* Chip8.c48_mode
    fault,         \* TRUE once a step has panicked (the process is gone)
    steps,         \* number of run_instruction calls made so far
    last_instr,    \* raw word of the instruction the last call fetched
    last_pc,       \* address the last call fetched it from
    calls,         \* history: addresses of the calls not yet returned from
    timer_set,     \* history: per timer, <<value last set, ticks at that time>>
    drawn,         \* history: a clear or draw ran since should_refresh was called
    emu_speed,     \* Config.emu_speed
    debug_mode,    \* Config.debug_mode
    running,       \* Debug.running
    step_exec,     \* Debug.step_exec
    host_at,       \* where Interpreter::run stands in its loop
    cycle_left,    \* iterations left of the loop over run_instruction
    ticks,         \* number of handle_timers calls made so far
    audio_playing, \* the audio queue is resumed (playing), not paused
    rendered,      \* the picture on the canvas: the unit cells <<x, y>> filled
    polled         \* history: the events the poll of this loop iteration handled

machine_vars == <<memory, pc, v, i, stack, display, refresh, delay_timer,
                  sound_timer, input, c48_mode>>

history_vars == <<fault, steps, last_instr, last_pc, calls, timer_set, drawn>>

host_vars == <<emu_speed, debug_mode, running, step_exec, host_at, cycle_left,
               ticks, audio_playing, rendered, polled>>

vars == <<memory, pc, v, i, stack, display, refresh, delay_timer, sound_timer,
          input, c48_mode, fault, steps, last_instr, last_pc, calls, timer_set,
          drawn,
          emu_speed, debug_mode, running, step_exec, host_at, cycle_left,
          ticks, audio_playing, rendered, polled>>

----------------------------------------------------------------------------
(* Sizes and addresses fixed by the program. *)

MemSize == 4096
DISPLAY_WIDTH == 64
ProgramStart == 512
FontStart == 80
MAIN_LOOP_FREQUENCY == 60
DEFAULT_EMU_FREQUENCY == 500

FONT ==
    << 240, 144, 144, 144, 240,   32,  96,  32,  32, 112,
       240,  16, 240, 128, 240,  240,  16, 240,  16, 240,
       144, 144, 240,  16,  16,  240, 128, 240,  16, 240,
       240, 128, 240, 144, 240,  240,  16,  32,  64,  64,
       240, 144, 240, 144, 240,  240, 144, 240,  16, 240,
       240, 144, 240, 144, 144,  224, 144, 224, 144, 224,
       240, 128, 128, 128, 240,  224, 144, 144, 144, 224,
       240, 128, 240, 128, 240,  240, 128, 240, 128, 128 >>

(* Bounds of the model: the calls of run_instruction a run of the machine  *)
(* alone makes, the calls it makes on an image of nested calls and on the  *)
(* image that adds to I in a loop, and the ticks a run of the host loop    *)
(* makes.                                                                  *)
MaxSteps == 5
MaxCallSteps == 18
MaxAddLoopSteps == 484
MaxTicks == 5

----------------------------------------------------------------------------
(* Machine integers: the bitwise operators of u8 / u16 and the wrapping    *)
(* and overflow-reporting arithmetic of u8.                                *)

RECURSIVE BitAnd(_, _)
BitAnd(a, b) ==
    IF a = 0 \/ b = 0 THEN 0
    ELSE (a % 2) * (b % 2) + 2 * BitAnd(a \div 2, b \div 2)

RECURSIVE BitOr(_, _)
BitOr(a, b) ==
    IF a = 0 THEN b
    ELSE IF b = 0 THEN a
    ELSE (IF a % 2 = 1 \/ b % 2 = 1 THEN 1 ELSE 0) + 2 * BitOr(a \div 2, b \div 2)

RECURSIVE BitXor(_, _)
BitXor(a, b) ==
    IF a = 0 THEN b
    ELSE IF b = 0 THEN a
    ELSE ((a + b) % 2) + 2 * BitXor(a \div 2, b \div 2)

Pow2(n) == 2 ^ n

Shr(a, n) == a \div Pow2(n)

(* val.to_u8().unwrap_or_default() and val.to_u16().unwrap_or_default() *)
to_u8(val) == IF val >= 0 /\ val <= 255 THEN val ELSE 0
to_u16(val) == IF val >= 0 /\ val <= 65535 THEN val ELSE 0

(* a slip: saturating instead of wrapping *)
saturating_add_u8(a, b) == IF a + b > 255 THEN 255 ELSE a + b

wrapping_add_u8(a, b) == (a + b) % 256
wrapping_add_u16(a, b) == (a + b) % 65536

(* u8::overflowing_*: <<result, overflow>> *)
overflowing_add(a, b) == <<(a + b) % 256, a + b > 255>>
(* a slip: equal operands reported as a borrow *)
overflowing_sub_on_equal(a, b) == <<(a - b + 256) % 256, a <= b>>

overflowing_sub(a, b) == <<(a - b + 256) % 256, a < b>>
overflowing_shr(a, n) == <<a \div Pow2(n % 8), n >= 8>>
overflowing_shl(a, n) == <<(a * Pow2(n % 8)) % 256, n >= 8>>

----------------------------------------------------------------------------
(* Instruction: a raw 16-bit word and its fields. *)

new_from_bytes(b1, b2) == b1 * 256 + b2

to_raw_instr(instr) == instr

(* a slip: the first nibble shifted by 8 instead of 12 *)
first_nibble_short_shift(instr) == Shr(BitAnd(instr, 61440), 8)

first_nibble(instr) == Shr(BitAnd(instr, 61440), 12)

last_nibble(instr) == BitAnd(instr, 15)

x_of(instr) == Shr(BitAnd(instr, 3840), 8)

x_y(instr) == <<Shr(BitAnd(instr, 3840), 8), Shr(BitAnd(instr, 240), 4)>>

nnn(instr) == BitAnd(instr, 4095)

kk(instr) == BitAnd(instr, 255)

----------------------------------------------------------------------------
(* The machine as one value, so that a handler is a function of it. *)

Machine ==
    [memory |-> memory, pc |-> pc, v |-> v, i |-> i, stack |-> stack,
     display |-> display, refresh |-> refresh, delay_timer |-> delay_timer,
     sound_timer |-> sound_timer, input |-> input, c48_mode |-> c48_mode,
     fault |-> fault]

(* A panic: an index out of bounds, or an arithmetic overflow in a build   *)
(* with overflow checks.  The process ends; nothing is observable after.   *)
panic(c) == [c EXCEPT !.fault = TRUE]

(* ProgramCounter *)
pc_set_to(c, val) == [c EXCEPT !.pc = val]

pc_increment(c) == [c EXCEPT !.pc = @ + 2]

pc_increment_if(c, condition) == IF condition THEN pc_increment(c) ELSE c

(* a slip: the rewind left out *)
pc_decrement_if_never(c, condition) == c

pc_decrement_if(c, condition) == IF condition THEN [c EXCEPT !.pc = @ - 2] ELSE c

(* Reg *)
RegV(x) == <<"V", x>>
RegI == <<"I", 0>>

set_reg_to(c, r, val) ==
    IF r[1] = "V" THEN [c EXCEPT !.v[r[2]] = to_u8(val)]
    ELSE [c EXCEPT !.i = to_u16(val)]

add_to_reg(c, r, val) ==
    IF r[1] = "V" THEN [c EXCEPT !.v[r[2]] = wrapping_add_u8(@, to_u8(val))]
    ELSE [c EXCEPT !.i = wrapping_add_u16(@, to_u16(val))]

set_register_flag_if_else_0(c, condition) ==
    IF condition THEN set_reg_to(c, RegV(15), 1) ELSE set_reg_to(c, RegV(15), 0)

(* a slip: only the first pressed key looked at *)
ContainsFirst(s, e) == Len(s) > 0 /\ s[1] = e

Contains(s, e) == \E k \in 1..Len(s) : s[k] = e

----------------------------------------------------------------------------
(* Chip8::draw *)

(* The inner loop over the bits of one sprite byte, from bit k on.         *)
(* Yields the machine and the horizontal cursor it leaves.                 *)
RECURSIVE draw_bits(_, _, _, _, _)
draw_bits(c, sprite_byte, display_x, display_y, k) ==
    IF k = 8 THEN [c |-> c, display_x |-> display_x]
    ELSE
        LET current_pos == (display_y * DISPLAY_WIDTH) + display_x IN
        IF current_pos >= 2048 THEN [c |-> c, display_x |-> display_x]
        ELSE
            LET c1 == IF BitAnd(sprite_byte, 128) = 128
                      THEN IF c.display[current_pos]
                           THEN set_reg_to([c EXCEPT !.display[current_pos] = FALSE],
                                           RegV(15), 1)
                           ELSE [c EXCEPT !.display[current_pos] = TRUE]
                      ELSE c
            IN  draw_bits(c1, (sprite_byte * 2) % 256, display_x + 1, display_y, k + 1)

(* a slip: the horizontal cursor not returned to the start after a row *)
RECURSIVE draw_rows_no_cursor_reset(_, _, _, _, _, _)
draw_rows_no_cursor_reset(c, addr, bytes_to_read, n, display_x, display_y) ==
    IF n >= bytes_to_read THEN c
    ELSE IF addr + n >= MemSize THEN panic(c)
    ELSE
        LET r == draw_bits(c, c.memory[addr + n], display_x, display_y, 0) IN
        draw_rows_no_cursor_reset(r.c, addr, bytes_to_read, n + 1, r.display_x,
                                  display_y + 1)

(* The outer loop over the sprite's rows, from row n on. *)
RECURSIVE draw_rows(_, _, _, _, _, _)
draw_rows(c, addr, bytes_to_read, n, display_x, display_y) ==
    IF n >= bytes_to_read THEN c
    ELSE IF addr + n >= MemSize THEN panic(c)
    ELSE
        LET r == draw_bits(c, c.memory[addr + n], display_x, display_y, 0) IN
        draw_rows(r.c, addr, bytes_to_read, n + 1,
                  IF r.display_x >= 8 THEN r.display_x - 8 ELSE 0,
                  display_y + 1)

(* a slip: the flag cleared after the loop instead of before it *)
draw_flag_cleared_last(c, instr) ==
    LET x == x_y(instr)[1]
        y == x_y(instr)[2]
    IN  set_reg_to(draw_rows(c, c.i, last_nibble(instr), 0, c.v[x] % 64, c.v[y] % 32),
                   RegV(15), 0)

draw(c, instr) ==
    LET x == x_y(instr)[1]
        y == x_y(instr)[2]
        display_x == c.v[x] % 64
        display_y == c.v[y] % 32
        bytes_to_read == last_nibble(instr)
        addr == c.i
    IN  draw_rows(set_reg_to(c, RegV(15), 0), addr, bytes_to_read, 0,
                  display_x, display_y)

(* a slip: an unknown instruction treated as fatal *)
handle_unknown_instr_fatal(c, instr) == panic(c)

handle_unknown_instr(c, instr) == c

----------------------------------------------------------------------------
(* operations.rs: the handlers of MAIN_TABLE *)

(* Screen::clear *)
BlankDisplay == [p \in 0..2047 |-> FALSE]

screen_clear(c) == [c EXCEPT !.display = BlankDisplay]

(* a slip: the return unwrapping the popped value *)
op_table_0_unwrap(c, instr) ==
    CASE kk(instr) = 224 -> [screen_clear(c) EXCEPT !.refresh = TRUE]
      [] kk(instr) = 238 ->
            IF Len(c.stack) > 0
            THEN pc_set_to([c EXCEPT !.stack = SubSeq(@, 1, Len(@) - 1)],
                           c.stack[Len(c.stack)])
            ELSE panic(c)
      [] OTHER -> handle_unknown_instr(c, instr)

op_table_0(c, instr) ==
    CASE kk(instr) = 224 -> [screen_clear(c) EXCEPT !.refresh = TRUE]
      [] kk(instr) = 238 ->
            IF Len(c.stack) > 0
            THEN pc_set_to([c EXCEPT !.stack = SubSeq(@, 1, Len(@) - 1)],
                           c.stack[Len(c.stack)])
            ELSE pc_set_to(c, 0)
      [] OTHER -> handle_unknown_instr(c, instr)

op_1nnn(c, instr) == pc_set_to(c, nnn(instr))

(* a slip: the call pushing its own address, not the one after it *)
op_2nnn_push_call_address(c, instr) ==
    pc_set_to([c EXCEPT !.stack = Append(@, c.pc - 2)], nnn(instr))

op_2nnn(c, instr) == pc_set_to([c EXCEPT !.stack = Append(@, c.pc)], nnn(instr))

(* a slip: the condition of 3xkk inverted *)
op_3xkk_inverted(c, instr) == pc_increment_if(c, c.v[x_of(instr)] # kk(instr))

op_3xkk(c, instr) == pc_increment_if(c, c.v[x_of(instr)] = kk(instr))

op_4xkk(c, instr) == pc_increment_if(c, c.v[x_of(instr)] # kk(instr))

op_5xy0(c, instr) ==
    LET x == x_y(instr)[1]
        y == x_y(instr)[2]
    IN  pc_increment_if(c, c.v[x] = c.v[y])

(* a slip: 6xkk writing the register of the y field *)
op_6xkk_y_field(c, instr) == set_reg_to(c, RegV(x_y(instr)[2]), kk(instr))

op_6xkk(c, instr) == set_reg_to(c, RegV(x_of(instr)), kk(instr))

op_7xkk(c, instr) == add_to_reg(c, RegV(x_of(instr)), kk(instr))

(* a slip: the copy of Vy made in the wrong mode *)
shift_source_wrong_mode(c, x, y) ==
    IF c.c48_mode THEN set_reg_to(c, RegV(x), c.v[y]) ELSE c

(* 8xy6 and 8xyE: the copy of Vy that only the original CHIP-8 makes *)
shift_source(c, x, y) == IF ~c.c48_mode THEN set_reg_to(c, RegV(x), c.v[y]) ELSE c

op_8xy6(c, x, y) ==
    LET c1 == shift_source(c, x, y)
        r == overflowing_shr(c1.v[x], 1)
    IN  set_reg_to(set_register_flag_if_else_0(c1, r[2]), RegV(x), r[1])

op_8xyE(c, x, y) ==
    LET c1 == shift_source(c, x, y)
        r == overflowing_shl(c1.v[x], 1)
    IN  set_reg_to(set_register_flag_if_else_0(c1, ~r[2]), RegV(x), r[1])

op_table_8(c, instr) ==
    LET x == x_y(instr)[1]
        y == x_y(instr)[2]
        n == last_nibble(instr)
    IN  CASE n = 0 -> set_reg_to(c, RegV(x), c.v[y])
          [] n = 1 -> set_reg_to(c, RegV(x), BitOr(c.v[x], c.v[y]))
          [] n = 2 -> set_reg_to(c, RegV(x), BitAnd(c.v[x], c.v[y]))
          [] n = 3 -> set_reg_to(c, RegV(x), BitXor(c.v[x], c.v[y]))
          [] n = 4 -> LET r == overflowing_add(c.v[x], c.v[y])
                      IN  set_reg_to(set_register_flag_if_else_0(c, r[2]), RegV(x), r[1])
          [] n = 5 -> LET r == overflowing_sub(c.v[x], c.v[y])
                      IN  set_reg_to(set_register_flag_if_else_0(c, ~r[2]), RegV(x), r[1])
          [] n = 6 -> op_8xy6(c, x, y)
          [] n = 7 -> LET r == overflowing_sub(c.v[y], c.v[x])
                      IN  set_reg_to(set_register_flag_if_else_0(c, ~r[2]), RegV(x), r[1])
          [] n = 14 -> op_8xyE(c, x, y)
          [] OTHER -> handle_unknown_instr(c, instr)

(* a slip: 9xy0 skipping on equality *)
op_9xy0_on_equal(c, instr) ==
    pc_increment_if(c, c.v[x_y(instr)[1]] = c.v[x_y(instr)[2]])

op_9xy0(c, instr) ==
    LET x == x_y(instr)[1]
        y == x_y(instr)[2]
    IN  pc_increment_if(c, c.v[x] # c.v[y])

op_annn(c, instr) == set_reg_to(c, RegI, nnn(instr))

(* kk + Vx is a u8 sum: with overflow checks it panics above 255, without  *)
(* them it wraps; the build decides which.                                 *)
op_bnnn(c, instr, overflow_checks) ==
    IF c.c48_mode
    THEN LET sum == kk(instr) + c.v[x_of(instr)] IN
         IF sum > 255 /\ overflow_checks THEN panic(c)
         ELSE pc_set_to(c, sum % 256)
    ELSE pc_set_to(c, nnn(instr) + c.v[0])

(* r is the byte thread_rng().gen() returns *)
op_cxkk(c, instr, r) == set_reg_to(c, RegV(x_of(instr)), BitAnd(r, kk(instr)))

(* a slip: the draw not asking for a refresh *)
op_dxyn_no_refresh(c, instr) == draw(c, instr)

op_dxyn(c, instr) ==
    LET c1 == draw(c, instr) IN
    IF c1.fault THEN c1 ELSE [c1 EXCEPT !.refresh = TRUE]

op_table_e(c, instr) ==
    CASE kk(instr) = 158 -> pc_increment_if(c, Contains(c.input, c.v[x_of(instr)]))
      [] kk(instr) = 161 -> pc_increment_if(c, ~Contains(c.input, c.v[x_of(instr)]))
      [] OTHER -> handle_unknown_instr(c, instr)

op_fx0a(c, x) ==
    LET c1 == pc_decrement_if(c, Len(c.input) = 0)
        key == IF Len(c.input) > 0 THEN c.input[1] ELSE 0
    IN  set_reg_to(c1, RegV(x), key)

(* a slip: the limit itself counted as exceeding it *)
op_fx1e_at_limit(c, x) ==
    LET c1 == add_to_reg(c, RegI, c.v[x]) IN
    IF c1.i >= 4096 THEN set_reg_to(c1, RegV(15), 1) ELSE c1

op_fx1e(c, x) ==
    LET c1 == add_to_reg(c, RegI, c.v[x]) IN
    IF c1.i > 4096 THEN set_reg_to(c1, RegV(15), 1) ELSE c1

op_fx29(c, x) ==
    LET ch == BitAnd(c.v[x], 15) IN set_reg_to(c, RegI, 80 + (5 * ch))

(* a slip: the digits written ones first *)
op_fx33_ones_first(c, x) ==
    LET val == c.v[x] IN
    IF c.i + 2 >= MemSize THEN panic(c)
    ELSE [c EXCEPT !.memory[c.i] = (val % 100) % 10,
                   !.memory[c.i + 1] = (val % 100) \div 10,
                   !.memory[c.i + 2] = val \div 100]

op_fx33(c, x) ==
    LET val == c.v[x] IN
    IF c.i + 2 >= MemSize THEN panic(c)
    ELSE [c EXCEPT !.memory[c.i] = val \div 100,
                   !.memory[c.i + 1] = (val % 100) \div 10,
                   !.memory[c.i + 2] = (val % 100) % 10]

(* for n in 0..x + 1 { memory[i + n] = v[n] }, from register n on *)
RECURSIVE store_regs(_, _, _)
store_regs(c, x, n) ==
    IF n > x THEN c
    ELSE IF c.i + n >= MemSize THEN panic(c)
    ELSE store_regs([c EXCEPT !.memory[c.i + n] = c.v[n]], x, n + 1)

(* a slip: the range 0..x taken without its end *)
op_fx55_exclusive(c, x) == IF x = 0 THEN c ELSE store_regs(c, x - 1, 0)

op_fx55(c, x) == store_regs(c, x, 0)

(* for n in 0..x + 1 { v[n] = memory[i + n] }, from register n on *)
RECURSIVE load_regs(_, _, _)
load_regs(c, x, n) ==
    IF n > x THEN c
    ELSE IF c.i + n >= MemSize THEN panic(c)
    ELSE load_regs(set_reg_to(c, RegV(n), c.memory[c.i + n]), x, n + 1)

op_fx65(c, x) == load_regs(c, x, 0)

op_table_f(c, instr) ==
    LET x == x_of(instr)
        b == kk(instr)
    IN  CASE b = 7 -> set_reg_to(c, RegV(x), c.delay_timer)
          [] b = 10 -> op_fx0a(c, x)
          [] b = 21 -> [c EXCEPT !.delay_timer = c.v[x]]
          [] b = 24 -> [c EXCEPT !.sound_timer = c.v[x]]
          [] b = 30 -> op_fx1e(c, x)
          [] b = 41 -> op_fx29(c, x)
          [] b = 51 -> op_fx33(c, x)
          [] b = 85 -> op_fx55(c, x)
          [] b = 101 -> op_fx65(c, x)
          [] OTHER -> handle_unknown_instr(c, instr)

(* OP_TABLE[instr.first_nibble()](self, instr) *)
decode_and_execute(c, instr, r, overflow_checks) ==
    LET f == first_nibble(instr) IN
    CASE f = 0 -> op_table_0(c, instr)
      [] f = 1 -> op_1nnn(c, instr)
      [] f = 2 -> op_2nnn(c, instr)
      [] f = 3 -> op_3xkk(c, instr)
      [] f = 4 -> op_4xkk(c, instr)
      [] f = 5 -> op_5xy0(c, instr)
      [] f = 6 -> op_6xkk(c, instr)
      [] f = 7 -> op_7xkk(c, instr)
      [] f = 8 -> op_table_8(c, instr)
      [] f = 9 -> op_9xy0(c, instr)
      [] f = 10 -> op_annn(c, instr)
      [] f = 11 -> op_bnnn(c, instr, overflow_checks)
      [] f = 12 -> op_cxkk(c, instr, r)
      [] f = 13 -> op_dxyn(c, instr)
      [] f = 14 -> op_table_e(c, instr)
      [] OTHER -> op_table_f(c, instr)

(* Chip8::fetch reads memory[pc] and memory[pc + 1]; either index may be   *)
(* out of bounds.                                                          *)
CanFetch(c) == c.pc + 1 < MemSize

fetch_instr(c) == new_from_bytes(c.memory[c.pc], c.memory[c.pc + 1])

(* Chip8::run_instruction *)
run_instruction(c, r, overflow_checks) ==
    IF ~CanFetch(c) THEN panic(c)
    ELSE decode_and_execute(pc_increment(c), fetch_instr(c), r, overflow_checks)

----------------------------------------------------------------------------
(* The program images the model loads.  An image is the byte sequence      *)
(* load_program_to_memory copies to 0x200; it is built here from 16-bit    *)
(* words, high byte first.                                                 *)

Word(f, x, y, n) == f * 4096 + x * 256 + y * 16 + n
WordXKK(f, x, b) == f * 4096 + x * 256 + b
WordNNN(f, a) == f * 4096 + a

Bytes(words) ==
    [k \in 1..(2 * Len(words)) |->
        IF k % 2 = 1 THEN words[(k + 1) \div 2] \div 256
        ELSE words[k \div 2] % 256]

(* set register 0 to 5; add 3 to register 0; skip next if register 0      *)
(* equals 8; set register 0 to 99                                          *)
EndToEndProgram == Bytes(<<24581, 28675, 12296, 24675>>)

(* Register pairs <<x, y>>, register values and immediates the images use *)
RegPairs == {<<0, 1>>, <<2, 2>>, <<15, 3>>, <<4, 15>>}
ByteVals == {0, 1, 128, 255}
Immediates == {1, 255}

(* The instructions an ALU image ends with, for registers x and y *)
AluOps(x, y) ==
    {WordXKK(3, x, b) : b \in Immediates}
    \cup {WordXKK(4, x, b) : b \in Immediates}
    \cup {WordXKK(7, x, b) : b \in Immediates}
    \cup {Word(5, x, y, 0), Word(9, x, y, 0)}
    \cup {Word(8, x, y, n) : n \in {0, 1, 2, 3, 4, 5, 6, 7, 8, 14, 15}}
    \cup {WordXKK(14, x, 255), WordXKK(15, x, 0), WordXKK(0, x, 255)}

(* load Vx, load Vy, then one instruction on them *)
AluProgram(x, y, a, b, op) == Bytes(<<WordXKK(6, x, a), WordXKK(6, y, b), op>>)

(* A draw image: load Vx and Vy, point I at the sprite, draw it twice.     *)
(* The sprite's bytes s follow the five instructions, at 0x20A.           *)
DrawRegs == {<<0, 1>>, <<15, 1>>, <<1, 15>>}
DrawCols == {0, 56, 60, 63, 124}
DrawRows == {0, 31, 33}
DrawHeights == {1, 2}
Sprites == {<<255, 129>>, <<0, 128>>, <<15, 0>>, <<128, 128>>}
SpriteAddr == ProgramStart + 10

DrawProgram(x, y, cx, cy, n, s) ==
    Bytes(<<WordXKK(6, x, cx), WordXKK(6, y, cy), WordNNN(10, SpriteAddr),
            Word(13, x, y, n), Word(13, x, y, n), s[1] * 256 + s[2]>>)

(* A BCD image: load Vx, point I at addr, Fx33 *)
BcdRegs == {0, 7, 15}
BcdVals == {0, 9, 100, 123, 255}
BcdAddrs == {516, 768, 4093, 4094}

BcdProgram(x, val, addr) ==
    Bytes(<<WordXKK(6, x, val), WordNNN(10, addr), WordXKK(15, x, 51)>>)

(* A one-instruction image, for every pair of these bytes *)
HighBytes == {0, 18, 46, 53, 79, 81, 106, 112, 140, 147, 175, 178, 199, 208, 225, 255}
LowBytes == {0, 7, 10, 21, 24, 30, 41, 51, 52, 85, 101, 158, 161, 224, 238, 255}

RandBytes == {0, 165, 255}

(* Images of calls and returns: a call of itself; two nested calls, both   *)
(* returned from; the same subroutine called twice; a call, its return,    *)
(* and one return too many.                                                *)
Return == 238

SelfCall == Bytes(<<WordNNN(2, ProgramStart)>>)

NestedCalls ==
    Bytes(<<WordNNN(2, ProgramStart + 6), WordXKK(6, 0, 99),
            WordNNN(1, ProgramStart + 4), WordNNN(2, ProgramStart + 10),
            Return, Return>>)

RepeatedCalls ==
    Bytes(<<WordNNN(2, ProgramStart + 6), WordNNN(2, ProgramStart + 6),
            WordNNN(1, ProgramStart + 4), Return>>)

OneReturnTooMany == Bytes(<<WordNNN(2, ProgramStart + 4), Return, Return>>)

CallPrograms == {SelfCall, NestedCalls, RepeatedCalls, OneReturnTooMany}

(* An address-add image: load the flag register, load Vx, point I at addr, *)
(* then Fx1E                                                               *)
AddRegs == {0, 15}
AddVals == {0, 1, 2, 255}
AddAddrs == {0, 3841, 4095}
AddFlags == {0, 7}

AddressAddProgram(x, a, addr, f) ==
    Bytes(<<WordXKK(6, 15, f), WordXKK(6, x, a), WordNNN(10, addr),
            WordXKK(15, x, 30)>>)

(* Adding 0xFF to I = 0xFFF in a loop, until I has passed 0xFFFF *)
AddLoopProgram ==
    Bytes(<<WordXKK(6, 0, 255), WordNNN(10, 4095), WordXKK(15, 0, 30),
            WordNNN(1, ProgramStart + 4)>>)

(* An overlap image: draw one sprite of the font at <<0, 0>>, then another *)
(* over it.  Glyph 0 and glyph 1 share a lit cell; row 1 of glyph 0 (0x90) *)
(* and row 1 of glyph 1 (0x60) share none.                                 *)
Overlaps == {<<FontStart, FontStart + 5, 5>>, <<FontStart + 1, FontStart + 6, 1>>}

OverlapProgram(first, second, n) ==
    Bytes(<<WordNNN(10, first), Word(13, 0, 0, n), WordNNN(10, second),
            Word(13, 0, 0, n)>>)

(* A bulk-transfer image: load Vx, point I at addr, store V0..Vx, point I  *)
(* at from, load V0..Vx                                                    *)
TransferRegs == {0, 1, 15}
TransferVals == {7, 255}
TransferAddrs == {FontStart, 4080, 4081}

TransferProgram(x, a, addr, from) ==
    Bytes(<<WordXKK(6, x, a), WordNNN(10, addr), WordXKK(15, x, 85),
            WordNNN(10, from), WordXKK(15, x, 101)>>)

(* A waiting image: load Vx with 7, then wait for a key into Vx *)
LoadedWaitRegs == {0, 15}

LoadedWaitProgram(x) == Bytes(<<WordXKK(6, x, 7), WordXKK(15, x, 10)>>)

(* An indexed-jump image: load V0, load the register the high nibble of    *)
(* nnn names, then Bnnn                                                    *)
JumpTargets == {1, 640, 767, 4095}

JumpProgram(a, b, target) ==
    Bytes(<<WordXKK(6, 0, a), WordXKK(6, target \div 256, b), WordNNN(11, target)>>)

----------------------------------------------------------------------------
(* Chip8::new followed by load_program_to_memory *)

(* for b in bytes { memory[addr] = b; addr += 1 }, from the k-th byte on *)
RECURSIVE write_bytes(_, _, _, _)
write_bytes(mem, bytes, addr, k) ==
    IF k > Len(bytes) THEN mem
    ELSE write_bytes([mem EXCEPT ![addr] = bytes[k]], bytes, addr + 1, k + 1)

load_font(mem) == write_bytes(mem, FONT, FontStart, 1)

load_program_to_memory(mem, f) == write_bytes(mem, f, ProgramStart, 1)

(* memory of Chip8::new: zeroes, then the font *)
NewMemory == load_font([a \in 0..(MemSize - 1) |-> 0])

(* Interpreter::new: Debug { running: true, step_exec: false }, a cleared   *)
(* canvas and an audio queue not yet resumed                               *)
HostStateInit(speed, debug) ==
    /\ emu_speed = speed
    /\ debug_mode = debug
    /\ running = TRUE
    /\ step_exec = FALSE
    /\ host_at = "poll"
    /\ cycle_left = 0
    /\ ticks = 0
    /\ audio_playing = FALSE
    /\ rendered = {}
    /\ polled = <<>>

MachineInit(f, mode) ==
    /\ memory = load_program_to_memory(NewMemory, f)
    /\ pc = ProgramStart
    /\ v = [n \in 0..15 |-> 0]
    /\ i = 0
    /\ stack = <<>>
    /\ display = BlankDisplay
    /\ refresh = FALSE
    /\ delay_timer = 0
    /\ sound_timer = 0
    /\ input = <<>>
    /\ c48_mode = mode
    /\ fault = FALSE
    /\ steps = 0
    /\ last_instr = 0
    /\ last_pc = 0
    /\ calls = <<>>
    /\ timer_set = [delay |-> <<0, 0>>, sound |-> <<0, 0>>]
    /\ drawn = FALSE

InitWith(f, mode) ==
    MachineInit(f, mode) /\ HostStateInit(DEFAULT_EMU_FREQUENCY, FALSE)

InitEndToEnd == \E mode \in BOOLEAN : InitWith(EndToEndProgram, mode)

InitAlu ==
    \E xy \in RegPairs, a \in ByteVals, b \in ByteVals, mode \in BOOLEAN :
        \E op \in AluOps(xy[1], xy[2]) :
            InitWith(AluProgram(xy[1], xy[2], a, b, op), mode)

InitDraw ==
    \E xy \in DrawRegs, cx \in DrawCols, cy \in DrawRows, n \in DrawHeights,
       s \in Sprites, mode \in BOOLEAN :
        InitWith(DrawProgram(xy[1], xy[2], cx, cy, n, s), mode)

InitBcd ==
    \E x \in BcdRegs, val \in BcdVals, addr \in BcdAddrs, mode \in BOOLEAN :
        InitWith(BcdProgram(x, val, addr), mode)

InitDecode ==
    \E b1 \in HighBytes, b2 \in LowBytes, mode \in BOOLEAN :
        InitWith(<<b1, b2>>, mode)

InitCall == \E f \in CallPrograms, mode \in BOOLEAN : InitWith(f, mode)

InitJump ==
    \E a \in ByteVals, b \in ByteVals, target \in JumpTargets, mode \in BOOLEAN :
        InitWith(JumpProgram(a, b, target), mode)

InitAddressAdd ==
    \/ \E x \in AddRegs, a \in AddVals, addr \in AddAddrs, f \in AddFlags,
          mode \in BOOLEAN :
           InitWith(AddressAddProgram(x, a, addr, f), mode)
    \/ \E mode \in BOOLEAN : InitWith(AddLoopProgram, mode)

InitOverlap ==
    \E o \in Overlaps, mode \in BOOLEAN : InitWith(OverlapProgram(o[1], o[2], o[3]), mode)

InitTransfer ==
    \E x \in TransferRegs, a \in TransferVals, addr \in TransferAddrs,
       from \in {0, 5}, mode \in BOOLEAN :
        InitWith(TransferProgram(x, a, addr, IF from = 0 THEN addr ELSE FontStart + from),
                 mode)

InitLoadedWait ==
    \E x \in LoadedWaitRegs, mode \in BOOLEAN : InitWith(LoadedWaitProgram(x), mode)

Init ==
    \/ InitLoadedWait
    \/ InitTransfer
    \/ InitEndToEnd
    \/ InitAlu
    \/ InitDraw
    \/ InitBcd
    \/ InitDecode
    \/ InitCall
    \/ InitJump
    \/ InitAddressAdd
    \/ InitOverlap

(* Memory from 0x200 holds the image f *)
Loaded(f) == \A k \in 1..Len(f) : memory[ProgramStart + k - 1] = f[k]

(* The calls of run_instruction a run of the machine alone makes *)
StepLimit ==
    IF \E f \in CallPrograms : Loaded(f) THEN MaxCallSteps
    ELSE IF Loaded(AddLoopProgram) THEN MaxAddLoopSteps
    ELSE MaxSteps

(* The history of calls after a call of run_instruction on word w fetched  *)
(* at the program counter: a call is entered, a return leaves the latest.  *)
CallsAfter(w) ==
    IF w \div 4096 = 2 THEN Append(calls, pc)
    ELSE IF w = Return /\ Len(calls) > 0 THEN SubSeq(calls, 1, Len(calls) - 1)
    ELSE calls

(* The history of timer settings after a call of run_instruction on word w: *)
(* Fx15 sets the delay timer and Fx18 the sound timer to Vx.                *)
TimerSetAfter(w) ==
    IF w \div 4096 = 15 /\ w % 256 = 21
    THEN [timer_set EXCEPT !.delay = <<v[(w \div 256) % 16], ticks>>]
    ELSE IF w \div 4096 = 15 /\ w % 256 = 24
    THEN [timer_set EXCEPT !.sound = <<v[(w \div 256) % 16], ticks>>]
    ELSE timer_set

(* One call of run_instruction.  After a panic the process is gone: the    *)
(* model keeps the state the call started from and raises fault.           *)
ExecuteInstruction ==
    /\ \E r \in (IF CanFetch(Machine) /\ first_nibble(fetch_instr(Machine)) = 12
                 THEN RandBytes ELSE {0}),
          overflow_checks \in (IF CanFetch(Machine)
                                  /\ first_nibble(fetch_instr(Machine)) = 11
                               THEN BOOLEAN ELSE {FALSE}) :
        \E c \in {run_instruction(Machine, r, overflow_checks)} :
        IF c.fault
        THEN /\ fault' = TRUE
             /\ UNCHANGED <<machine_vars, calls, timer_set, drawn>>
        ELSE /\ memory' = c.memory
             /\ pc' = c.pc
             /\ v' = c.v
             /\ i' = c.i
             /\ stack' = c.stack
             /\ display' = c.display
             /\ refresh' = c.refresh
             /\ delay_timer' = c.delay_timer
             /\ sound_timer' = c.sound_timer
             /\ input' = c.input
             /\ c48_mode' = c.c48_mode
             /\ fault' = FALSE
             /\ calls' = CallsAfter(fetch_instr(Machine))
             /\ timer_set' = TimerSetAfter(fetch_instr(Machine))
             /\ drawn' = (drawn \/ fetch_instr(Machine) = 224
                                \/ fetch_instr(Machine) \div 4096 = 13)
    /\ steps' = steps + 1
    /\ last_instr' = IF CanFetch(Machine) THEN fetch_instr(Machine) ELSE last_instr
    /\ last_pc' = pc

Step ==
    /\ ~fault
    /\ steps < StepLimit
    /\ ExecuteInstruction
    /\ UNCHANGED host_vars

Next == Step

Spec == Init /\ [][Next]_vars

----------------------------------------------------------------------------
(* interpreter.rs: the host loop Interpreter::run.  host_at names the call *)
(* the loop makes next: "poll" (the events), "timers", "keys",             *)
(* "instructions", "refresh", "reset"; "exited" after Event::Quit.         *)

(* Config::instructions_per_cycle, in u32 division *)
instructions_per_cycle(speed) == (speed \div MAIN_LOOP_FREQUENCY) \div 2

(* The events one poll may return: Quit, the release of a key, any other *)
Events == {"Quit", "KeyUpP", "KeyUpEnd", "KeyUpPageDown", "KeyUpW", "Other"}
MaxEvents == 1
EventLists == UNION {[1..n -> Events] : n \in 0..MaxEvents}

(* Interpreter::toggle_state *)
toggle_state(d) == [d EXCEPT !.running = ~d.running]

(* a slip: PageDown not ignored while running *)
handle_debug_input_always_steps(d, event) ==
    CASE event = "KeyUpEnd" -> toggle_state(d)
      [] event = "KeyUpPageDown" -> [d EXCEPT !.step_exec = TRUE]
      [] OTHER -> d

(* Interpreter::handle_debug_input, on Debug d = [running, step_exec] *)
handle_debug_input(d, event) ==
    CASE event = "KeyUpP" -> d
      [] event = "KeyUpEnd" -> toggle_state(d)
      [] event = "KeyUpPageDown" ->
            IF d.running THEN d ELSE [d EXCEPT !.step_exec = TRUE]
      [] OTHER -> d

(* for event in event_iter { ... }, from the k-th event on *)
RECURSIVE handle_events(_, _, _)
handle_events(d, events, k) ==
    IF k > Len(events) THEN d
    ELSE IF events[k] = "Quit" THEN [d EXCEPT !.quit = TRUE]
    ELSE IF events[k] \in {"KeyUpP", "KeyUpEnd", "KeyUpPageDown", "KeyUpW"}
    THEN handle_events(IF debug_mode THEN handle_debug_input(d, events[k]) ELSE d,
                       events, k + 1)
    ELSE handle_events(d, events, k + 1)

(* Interpreter::is_paused *)
is_paused(d) == debug_mode /\ ~d.running /\ ~d.step_exec

(* The head of the loop: the events are handled; Quit leaves the loop, a   *)
(* paused interpreter starts the loop again, otherwise the tick goes on.   *)
PollEvents ==
    /\ ~fault
    /\ host_at = "poll"
    /\ ticks < MaxTicks
    /\ \E events \in EventLists :
         LET d == handle_events([running |-> running, step_exec |-> step_exec,
                                 quit |-> FALSE], events, 1)
         IN  /\ running' = d.running
             /\ step_exec' = d.step_exec
             /\ host_at' = IF d.quit THEN "exited"
                           ELSE IF is_paused(d) THEN "poll"
                           ELSE "timers"
             /\ polled' = events
    /\ UNCHANGED <<machine_vars, history_vars, emu_speed, debug_mode, cycle_left,
                   ticks, audio_playing, rendered>>

(* a slip: the delay timer decremented without the test for zero *)
HandleTimersUnguarded ==
    /\ ~fault
    /\ host_at = "timers"
    /\ delay_timer' = (delay_timer + 255) % 256
    /\ IF sound_timer > 0
       THEN /\ sound_timer' = sound_timer - 1
            /\ audio_playing' = TRUE
       ELSE /\ sound_timer' = sound_timer
            /\ audio_playing' = FALSE
    /\ ticks' = ticks + 1
    /\ host_at' = "keys"
    /\ polled' = <<>>
    /\ UNCHANGED <<memory, pc, v, i, stack, display, refresh, input, c48_mode,
                   history_vars, emu_speed, debug_mode, running, step_exec,
                   cycle_left, rendered>>

(* Interpreter::handle_timers; audio.resume() and audio.pause() set the    *)
(* state of the audio queue.                                               *)
HandleTimers ==
    /\ ~fault
    /\ host_at = "timers"
    /\ delay_timer' = IF delay_timer > 0 THEN delay_timer - 1 ELSE delay_timer
    /\ IF sound_timer > 0
       THEN /\ sound_timer' = sound_timer - 1
            /\ audio_playing' = TRUE
       ELSE /\ sound_timer' = sound_timer
            /\ audio_playing' = FALSE
    /\ ticks' = ticks + 1
    /\ host_at' = "keys"
    /\ polled' = <<>>
    /\ UNCHANGED <<memory, pc, v, i, stack, display, refresh, input, c48_mode,
                   history_vars, emu_speed, debug_mode, running, step_exec,
                   cycle_left, rendered>>

(* The keypad symbol register_pressed_keys pushes for a pressed key; 16    *)
(* stands for a key that is not mapped.                                    *)
Unmapped == 16

keypad_symbol(k) ==
    CASE k = "Num1" -> 1 [] k = "Num2" -> 2 [] k = "Num3" -> 3 [] k = "Num4" -> 12
      [] k = "Q" -> 4 [] k = "W" -> 5 [] k = "E" -> 6 [] k = "R" -> 13
      [] k = "A" -> 7 [] k = "S" -> 8 [] k = "D" -> 9 [] k = "F" -> 14
      [] k = "Y" -> 10 [] k = "X" -> 0 [] k = "C" -> 11 [] k = "V" -> 15
      [] OTHER -> Unmapped

(* for k in pressed_scancodes { ... }, from the n-th pressed key on *)
RECURSIVE push_pressed(_, _, _)
push_pressed(inp, pressed, n) ==
    IF n > Len(pressed) THEN inp
    ELSE push_pressed(IF keypad_symbol(pressed[n]) = Unmapped THEN inp
                      ELSE Append(inp, keypad_symbol(pressed[n])),
                      pressed, n + 1)

(* The keys held down when the keyboard state is read, in scan order *)
PressedKeys == {<<>>, <<"X", "Num4">>, <<"P", "V">>}

(* Interpreter::register_pressed_keys, and the start of the loop over      *)
(* run_instruction                                                         *)
RegisterPressedKeys ==
    /\ ~fault
    /\ host_at = "keys"
    /\ \E pressed \in PressedKeys : input' = push_pressed(<<>>, pressed, 1)
    /\ cycle_left' = instructions_per_cycle(emu_speed)
    /\ host_at' = IF instructions_per_cycle(emu_speed) > 0 THEN "instructions"
                  ELSE "refresh"
    /\ UNCHANGED <<memory, pc, v, i, stack, display, refresh, delay_timer,
                   sound_timer, c48_mode, history_vars, emu_speed, debug_mode,
                   running, step_exec, ticks, audio_playing, rendered, polled>>

(* One iteration of for _ in 0..instructions_per_cycle(); a panic ends the *)
(* process where it stands.                                                *)
HostRunInstruction ==
    /\ ~fault
    /\ host_at = "instructions"
    /\ cycle_left > 0
    /\ ExecuteInstruction
    /\ cycle_left' = IF fault' THEN cycle_left ELSE cycle_left - 1
    /\ host_at' = IF ~fault' /\ cycle_left = 1 THEN "refresh" ELSE host_at
    /\ UNCHANGED <<emu_speed, debug_mode, running, step_exec, ticks,
                   audio_playing, rendered, polled>>

(* The picture refresh_screen leaves on the canvas: cleared, then a unit   *)
(* cell filled at <<x, y>> for every lit display[(y * DISPLAY_WIDTH) + x]  *)
picture(disp) ==
    {xy \in (0..63) \X (0..31) : disp[(xy[2] * DISPLAY_WIDTH) + xy[1]]}

(* Interpreter::refresh_screen, with Screen::should_refresh *)
RefreshScreen ==
    /\ ~fault
    /\ host_at = "refresh"
    /\ IF refresh
       THEN /\ refresh' = FALSE
            /\ rendered' = picture(display)
       ELSE UNCHANGED <<refresh, rendered>>
    /\ drawn' = FALSE
    /\ host_at' = "reset"
    /\ UNCHANGED <<memory, pc, v, i, stack, display, delay_timer, sound_timer,
                   input, c48_mode, fault, steps, last_instr, last_pc, calls,
                   timer_set, emu_speed, debug_mode, running, step_exec,
                   cycle_left, ticks, audio_playing, polled>>

(* Interpreter::reset_exec_step, then handle_loop_sync and the next loop *)
ResetExecStep ==
    /\ ~fault
    /\ host_at = "reset"
    /\ step_exec' = IF step_exec THEN FALSE ELSE step_exec
    /\ host_at' = "poll"
    /\ UNCHANGED <<machine_vars, history_vars, emu_speed, debug_mode, running,
                   cycle_left, ticks, audio_playing, rendered, polled>>

HostNext ==
    \/ PollEvents
    \/ HandleTimers
    \/ RegisterPressedKeys
    \/ HostRunInstruction
    \/ RefreshScreen
    \/ ResetExecStep

(* The images the host loop runs.  A wait image: Fx0A, then a jump back to *)
(* it.  A timer image: load Vx, set both timers from it, then one more     *)
(* instruction; every timer value is run with a jump to itself as that     *)
(* instruction, and the largest with each of TimerOps.  A display image:   *)
(* draw the glyph 0, clear, draw it again, then a jump to itself.  The     *)
(* debug mode is run with the compatibility flag off, the key-skip images  *)
(* too.                                                                    *)
WaitRegs == {0, 15}

WaitKeyProgram(x) == Bytes(<<WordXKK(15, x, 10), WordNNN(1, ProgramStart)>>)

TimerVals == {0, 1, 2}

TimerOps ==
    {224, Return, WordNNN(1, ProgramStart + 6), WordNNN(2, ProgramStart + 8),
     WordXKK(3, 3, 2), WordXKK(4, 3, 2), Word(5, 3, 0, 0), WordXKK(6, 3, 7),
     WordXKK(7, 3, 255), Word(9, 3, 0, 0), WordNNN(10, ProgramStart),
     WordNNN(11, ProgramStart + 8), WordXKK(12, 3, 255), Word(13, 3, 0, 1),
     WordXKK(14, 3, 158), WordXKK(14, 3, 161), WordXKK(15, 3, 7),
     WordXKK(15, 3, 10), WordXKK(15, 3, 30), WordXKK(15, 3, 41),
     WordXKK(15, 3, 51), WordXKK(15, 3, 85), WordXKK(15, 3, 101),
     WordXKK(15, 3, 255)}
    \cup {Word(8, 3, 0, n) : n \in {0, 1, 2, 3, 4, 5, 6, 7, 14}}

TimerProgram(val, op) ==
    Bytes(<<WordXKK(6, 3, val), WordXKK(15, 3, 21), WordXKK(15, 3, 24), op>>)

DisplayProgram ==
    Bytes(<<WordNNN(10, FontStart), Word(13, 0, 0, 5), 224, Word(13, 0, 0, 5),
            WordNNN(1, ProgramStart + 8)>>)

(* A key-skip image: load Vx with a keypad symbol, Ex9E with a jump back   *)
(* to it, ExA1 with a jump back to it                                      *)
SkipRegs == {0, 15}
SkipVals == {0, 5, 12, 15}

KeySkipProgram(x, val) ==
    Bytes(<<WordXKK(6, x, val), WordXKK(14, x, 158), WordNNN(1, ProgramStart + 2),
            WordXKK(14, x, 161), WordNNN(1, ProgramStart + 6)>>)

(* The --freq values the runs are made with: 1 and 4 instructions a tick *)
EmuSpeeds == {200, DEFAULT_EMU_FREQUENCY}

HostInitWith(f, mode, speed, debug) ==
    MachineInit(f, mode) /\ HostStateInit(speed, debug)

HostInit ==
    \E mode \in BOOLEAN, speed \in EmuSpeeds :
        \/ \E x \in WaitRegs, debug \in {FALSE, ~mode} :
              HostInitWith(WaitKeyProgram(x), mode, speed, debug)
        \/ \E val \in TimerVals, debug \in {FALSE, ~mode} :
              HostInitWith(TimerProgram(val, WordNNN(1, ProgramStart + 6)),
                           mode, speed, debug)
        \/ \E op \in TimerOps : HostInitWith(TimerProgram(2, op), mode, speed, FALSE)
        \/ \E debug \in {FALSE, ~mode} : HostInitWith(DisplayProgram, mode, speed, debug)
        \/ \E x \in SkipRegs, val \in SkipVals :
              ~mode /\ HostInitWith(KeySkipProgram(x, val), mode, speed, FALSE)

SpecHost == HostInit /\ [][HostNext]_vars

----------------------------------------------------------------------------
(* Vocabulary of the properties.  An instruction word is taken apart here  *)
(* by division, independently of the decoder above.                        *)

OpFamily(w) == w \div 4096
OpX(w) == (w \div 256) % 16
OpY(w) == (w \div 16) % 16
OpN(w) == w % 16
OpKK(w) == w % 256
OpNNN(w) == w % 4096

(* The word under the program counter, when both its bytes are in memory *)
CurWord == memory[pc] * 256 + memory[pc + 1]

(* This transition is a call of run_instruction that fetches a word *)
StepTaken == steps' = steps + 1 /\ pc + 1 < MemSize

(* Bit k of a byte, most significant first (k = 0 is 0x80) *)
SpriteBit(byte, k) == (byte \div (2 ^ (7 - k))) % 2

----------------------------------------------------------------------------
(* C1: with 6005 7003 3008 6063 at 0x200, after exactly four steps         *)
(* register 0 holds 8 and the fourth step fetched from 0x208, past the     *)
(* skipped "set register 0 to 99" at 0x206.                                *)
C1_EndToEnd ==
    (Loaded(EndToEndProgram) /\ steps = 4) =>
        (~fault /\ v[0] = 8 /\ last_pc = 520 /\ last_instr # 24675)

C1_Witness == Loaded(EndToEndProgram) /\ steps = 4 /\ pc = 522 /\ v[0] = 8

(* C2: a draw whose start column is above 56 changes no cell left of that  *)
(* column: the bits of a row past column 63 are written nowhere.           *)
C2_DrawClipsAtRightEdge ==
    [][(StepTaken /\ OpFamily(CurWord) = 13 /\ ~fault'
            /\ v[OpX(CurWord)] % 64 > 56)
        => \A p \in 0..2047 :
              display'[p] # display[p] => p % 64 >= v[OpX(CurWord)] % 64]_vars

(* The draw images: a sprite of n rows s drawn at column cx, row cy. *)
HasSetBit(n, s) == \E r \in 0..(n - 1), k \in 0..7 : SpriteBit(s[r + 1], k) = 1

LandsOnDisplay(cx, cy, n, s) ==
    \E r \in 0..(n - 1), k \in 0..7 :
        /\ SpriteBit(s[r + 1], k) = 1
        /\ ((cy % 32) + r) * 64 + (cx % 64) + k < 2048

(* The second draw reads the coordinates the first one read: a coordinate  *)
(* held in register 15 is cleared by the first draw.                       *)
SameCoordinates(x, y, cx, cy) ==
    /\ x = 15 => cx % 64 = 0
    /\ y = 15 => cy % 32 = 0

DrawTwiceOutcome ==
    /\ steps = 4 => (~fault /\ v[15] = 0)
    /\ steps = 5 => (~fault /\ v[15] = 1 /\ display = BlankDisplay)

(* Memory holds a draw image: its two loads, its sprite address, and the  *)
(* same draw twice.                                                        *)
MemWord(a) == memory[a] * 256 + memory[a + 1]

DrawImageLoaded ==
    /\ OpFamily(MemWord(512)) = 6
    /\ OpFamily(MemWord(514)) = 6
    /\ OpX(MemWord(512)) # OpX(MemWord(514))
    /\ MemWord(516) = WordNNN(10, SpriteAddr)
    /\ OpFamily(MemWord(518)) = 13
    /\ OpX(MemWord(518)) = OpX(MemWord(512))
    /\ OpY(MemWord(518)) = OpX(MemWord(514))
    /\ MemWord(520) = MemWord(518)

ImageSprite == <<memory[SpriteAddr], memory[SpriteAddr + 1]>>

(* C3 as claimed: every sprite with a set bit, at every coordinate pair,   *)
(* leaves the flag 0 after the first draw and, after the second, a blank   *)
(* display and the flag 1.                                                 *)
C3_DrawTwiceAnySprite ==
    (/\ steps \in {4, 5}
     /\ DrawImageLoaded
     /\ HasSetBit(OpN(MemWord(518)), ImageSprite)
     /\ SameCoordinates(OpX(MemWord(518)), OpY(MemWord(518)),
                        OpKK(MemWord(512)), OpKK(MemWord(514))))
    => DrawTwiceOutcome

(* C3 amended: the same, for every sprite of which at least one set bit    *)
(* has a target index (Vy mod 32 + row) * 64 + (Vx mod 64) + bit below     *)
(* 2048, that is, lands on the display.                                    *)
C3_DrawTwiceLandingSprite ==
    (/\ steps \in {4, 5}
     /\ DrawImageLoaded
     /\ LandsOnDisplay(OpKK(MemWord(512)), OpKK(MemWord(514)),
                       OpN(MemWord(518)), ImageSprite)
     /\ SameCoordinates(OpX(MemWord(518)), OpY(MemWord(518)),
                        OpKK(MemWord(512)), OpKK(MemWord(514))))
    => DrawTwiceOutcome

C3_Witness ==
    /\ Loaded(DrawProgram(0, 1, 60, 31, 2, <<255, 129>>))
    /\ steps = 5
    /\ v[15] = 1
    /\ display = BlankDisplay
    /\ refresh

IsSkip(w) ==
    \/ OpFamily(w) \in {3, 4}
    \/ OpFamily(w) \in {5, 9} /\ OpN(w) = 0

SkipCondition(w) ==
    CASE OpFamily(w) = 3 -> v[OpX(w)] = OpKK(w)
      [] OpFamily(w) = 4 -> v[OpX(w)] # OpKK(w)
      [] OpFamily(w) = 5 -> v[OpX(w)] = v[OpY(w)]
      [] OTHER -> v[OpX(w)] # v[OpY(w)]

(* C4: a conditional skip moves the program counter by 4 when its          *)
(* condition holds and by 2 when it does not, and changes nothing else.    *)
C4_SkipAdvance ==
    [][(StepTaken /\ IsSkip(CurWord))
        => /\ ~fault'
           /\ pc' = pc + (IF SkipCondition(CurWord) THEN 4 ELSE 2)
           /\ UNCHANGED <<v, i, memory, stack, display>>]_vars

C4_Witness ==
    /\ ~fault
    /\ steps = 3
    /\ OpFamily(last_instr) = 9
    /\ v[OpX(last_instr)] # v[OpY(last_instr)]
    /\ pc = last_pc + 4

(* C5: 7xkk leaves Vx = (Vx + kk) mod 256 and every other register,        *)
(* register 15 included, as it was; it never faults.                       *)
C5_AddImmediateWraps ==
    [][(StepTaken /\ OpFamily(CurWord) = 7)
        => /\ ~fault'
           /\ v' = [v EXCEPT ![OpX(CurWord)] = (v[OpX(CurWord)] + OpKK(CurWord)) % 256]]_vars

(* 0xFF + 0x01 has wrapped to 0x00 *)
C5_Witness ==
    /\ ~fault
    /\ steps = 3
    /\ OpFamily(last_instr) = 7
    /\ OpKK(last_instr) = 1
    /\ OpX(last_instr) # 15
    /\ v[OpX(last_instr)] = 0
    /\ \E f \in {AluProgram(0, 1, 255, 0, WordXKK(7, 0, 1))} : Loaded(f)

(* C6: 6xkk leaves Vx = kk, and 8xy0 leaves Vx = Vy with Vy as it was;     *)
(* neither changes another register.                                       *)
C6_LoadAndAssign ==
    [][/\ (StepTaken /\ OpFamily(CurWord) = 6)
            => (~fault' /\ v' = [v EXCEPT ![OpX(CurWord)] = OpKK(CurWord)])
       /\ (StepTaken /\ OpFamily(CurWord) = 8 /\ OpN(CurWord) = 0)
            => (~fault' /\ v' = [v EXCEPT ![OpX(CurWord)] = v[OpY(CurWord)]])]_vars

(* 6x.., 6y.., 8xy0 has run: Vx holds the value loaded into Vy *)
C6_Witness ==
    /\ ~fault
    /\ steps = 3
    /\ OpFamily(last_instr) = 8
    /\ OpN(last_instr) = 0
    /\ OpX(last_instr) # OpY(last_instr)
    /\ v[OpY(last_instr)] = 255
    /\ v[OpX(last_instr)] = 255
    /\ MemWord(512) = WordXKK(6, OpX(last_instr), 1)

(* C7: Fx33 with I + 2 <= 0xFFF writes the hundreds, tens and ones digits  *)
(* of Vx to memory[I], memory[I + 1], memory[I + 2] and changes no other   *)
(* memory cell, no register and not I.                                     *)
C7_Bcd ==
    [][(StepTaken /\ OpFamily(CurWord) = 15 /\ OpKK(CurWord) = 51 /\ i + 2 <= 4095)
        => /\ ~fault'
           /\ memory' = [memory EXCEPT ![i] = v[OpX(CurWord)] \div 100,
                                       ![i + 1] = (v[OpX(CurWord)] \div 10) % 10,
                                       ![i + 2] = v[OpX(CurWord)] % 10]
           /\ UNCHANGED <<i, v>>]_vars

(* 123 has been written as 1, 2, 3 *)
C7_Witness ==
    /\ ~fault
    /\ steps = 3
    /\ OpFamily(last_instr) = 15
    /\ OpKK(last_instr) = 51
    /\ v[OpX(last_instr)] = 123
    /\ i = 4093
    /\ memory[i] = 1
    /\ memory[i + 1] = 2
    /\ memory[i + 2] = 3

ShiftOf(w, val) == IF OpN(w) = 6 THEN val \div 2 ELSE (val * 2) % 256

(* C8: 8xy6 / 8xyE leave Vx = Vy >> 1 / (Vy << 1) mod 256 with the         *)
(* compatibility flag off and Vx >> 1 / (Vx << 1) mod 256 with it on; the  *)
(* flag never changes.                                                     *)
C8_CompatShift ==
    [][/\ c48_mode' = c48_mode
       /\ (StepTaken /\ OpFamily(CurWord) = 8 /\ OpN(CurWord) \in {6, 14})
            => /\ ~fault'
               /\ v'[OpX(CurWord)] =
                    ShiftOf(CurWord, IF c48_mode THEN v[OpX(CurWord)]
                                     ELSE v[OpY(CurWord)])]_vars

(* With the flag off, 8xy6 on Vx = 1, Vy = 255 has left Vx = 127 *)
C8_Witness ==
    /\ ~fault
    /\ ~c48_mode
    /\ steps = 3
    /\ last_instr = Word(8, 0, 1, 6)
    /\ MemWord(512) = WordXKK(6, 0, 1)
    /\ v[1] = 255
    /\ v[0] = 127

(* C9: for the bytes b1, b2 a fetch reads, the decoded word is             *)
(* b1 * 256 + b2 and its fields are the word's nibbles, low byte and low   *)
(* twelve bits; the word is first_nibble * 4096 + nnn.                     *)
C9_DecodeFields ==
    CanFetch(Machine) =>
        LET b1 == memory[pc]
            b2 == memory[pc + 1]
            instr == new_from_bytes(b1, b2)
            raw == to_raw_instr(instr)
        IN  /\ raw = b1 * 256 + b2
            /\ first_nibble(instr) = raw \div 4096
            /\ x_of(instr) = (raw \div 256) % 16
            /\ x_y(instr) = <<(raw \div 256) % 16, (raw \div 16) % 16>>
            /\ last_nibble(instr) = raw % 16
            /\ nnn(instr) = raw % 4096
            /\ kk(instr) = raw % 256
            /\ raw = first_nibble(instr) * 4096 + nnn(instr)

(* 0x12 0x34 was fetched as 0x1234 and its nnn, 0x234, is where it jumped *)
C9_Witness ==
    /\ steps = 1
    /\ memory[512] = 18
    /\ memory[513] = 52
    /\ last_instr = 4660
    /\ pc = 564

IsUnknown(w) ==
    \/ OpFamily(w) = 0 /\ OpKK(w) \notin {224, 238}
    \/ OpFamily(w) = 8 /\ OpN(w) \notin {0, 1, 2, 3, 4, 5, 6, 7, 14}
    \/ OpFamily(w) = 14 /\ OpKK(w) \notin {158, 161}
    \/ OpFamily(w) = 15 /\ OpKK(w) \notin {7, 10, 21, 24, 30, 41, 51, 85, 101}

(* C10: a step on an instruction with no handler does not fault, moves     *)
(* the program counter by 2 and changes nothing else; the step after it    *)
(* fetches from the next address.                                          *)
C10_UnknownIsNoOp ==
    [][/\ (StepTaken /\ IsUnknown(CurWord))
            => /\ ~fault'
               /\ pc' = pc + 2
               /\ UNCHANGED <<v, i, memory, stack, display, refresh,
                              delay_timer, sound_timer>>
       /\ (StepTaken /\ steps > 0 /\ ~fault /\ IsUnknown(last_instr))
            => (last_pc' = last_pc + 2 /\ last_instr' = CurWord)]_vars

(* 8xy8 ran as the third instruction and the fourth step came after it *)
C10_Witness ==
    /\ ~fault
    /\ steps = 4
    /\ OpFamily(MemWord(516)) = 8
    /\ OpN(MemWord(516)) = 8
    /\ last_pc = 518
    /\ pc = 520
    /\ v[OpX(MemWord(516))] = 255

----------------------------------------------------------------------------
(* Calls and returns *)

(* The stack holds, for each call not yet returned from and in the order   *)
(* of the calls, the address after the call.                               *)
StackMatchesCalls(stk, cls) ==
    /\ Len(stk) = Len(cls)
    /\ \A k \in 1..Len(cls) : stk[k] = cls[k] + 2

(* C11: a call 2nnn at address a pushes a + 2 and sets the program counter *)
(* to nnn, whatever the depth of the stack; a return 00EE on a non-empty   *)
(* stack pops the address pushed last into the program counter; so after  *)
(* every step the stack is as deep as the number of calls not yet returned *)
(* from, and a return resumes at the instruction after its matching call.  *)
C11_CallReturnLifo ==
    [][StepTaken =>
        /\ (OpFamily(CurWord) = 2 =>
                /\ ~fault'
                /\ pc' = OpNNN(CurWord)
                /\ stack' = Append(stack, pc + 2))
        /\ (CurWord = Return /\ Len(stack) > 0 =>
                /\ ~fault'
                /\ pc' = stack[Len(stack)]
                /\ stack' = SubSeq(stack, 1, Len(stack) - 1))
        /\ (CurWord = Return /\ Len(calls) > 0 => pc' = calls[Len(calls)] + 2)
        /\ StackMatchesCalls(stack', calls')]_vars

(* Both nested calls have been returned from, the outer one last *)
C11_Witness ==
    /\ Loaded(NestedCalls)
    /\ steps = 4
    /\ last_instr = Return
    /\ last_pc = ProgramStart + 8
    /\ pc = ProgramStart + 2
    /\ stack = <<>>

(* C12: a return 00EE on an empty stack does not fail: it sets the program *)
(* counter to 0, leaves the stack empty and changes nothing else; the step *)
(* after it is taken at address 0.                                         *)
C12_ReturnOnEmptyStack ==
    [][StepTaken =>
        /\ (CurWord = Return /\ stack = <<>> =>
                /\ ~fault'
                /\ pc' = 0
                /\ stack' = <<>>
                /\ UNCHANGED <<memory, v, i, display, refresh, delay_timer,
                               sound_timer, input, c48_mode>>)
        /\ (last_instr = Return /\ stack = <<>> /\ calls = <<>> /\ pc = 0 =>
                /\ ~fault'
                /\ last_pc' = 0
                /\ pc' = 2)]_vars

(* The return too many has been executed and the word at address 0 after it *)
C12_Witness ==
    /\ Loaded(OneReturnTooMany)
    /\ steps = 4
    /\ last_pc = 0
    /\ pc = 2
    /\ stack = <<>>
    /\ ~fault

----------------------------------------------------------------------------
(* Waiting for a key *)

IsWaitKey(w) == OpFamily(w) = 15 /\ OpKK(w) = 10

(* C13: a step on Fx0A at address a never fails; with an empty input set   *)
(* it leaves the program counter at a and the memory as it was, so the     *)
(* same instruction is fetched by the next step; with a non-empty input    *)
(* set it loads Vx with the first element of the input set and leaves the  *)
(* program counter at a + 2.                                               *)
C13_WaitKeyRefetch ==
    [][StepTaken /\ IsWaitKey(CurWord) =>
        /\ ~fault'
        /\ (input = <<>> => pc' = pc /\ memory' = memory)
        /\ (input # <<>> => v'[OpX(CurWord)] = input[1] /\ pc' = pc + 2)]_vars

(* The second step on the Fx0A at 0x200 found the key F pressed, after the *)
(* first found no key                                                      *)
C13_Witness ==
    /\ IsWaitKey(last_instr)
    /\ steps = 2
    /\ last_pc = ProgramStart
    /\ pc = ProgramStart + 2
    /\ input = <<15>>
    /\ v[OpX(last_instr)] = 15

----------------------------------------------------------------------------
(* The indexed jump *)

(* C14: a step on Bnnn does not fail and sets the program counter to the   *)
(* exact sum nnn + V0 with the compatibility flag off, and to the exact    *)
(* sum kk + Vx with it on, x being the high nibble of nnn and kk its low   *)
(* byte.                                                                   *)
C14_IndexedJumpExact ==
    [][StepTaken /\ OpFamily(CurWord) = 11 =>
        /\ ~fault'
        /\ pc' = IF c48_mode THEN OpKK(CurWord) + v[OpX(CurWord)]
                 ELSE OpNNN(CurWord) + v[0]]_vars

----------------------------------------------------------------------------
(* Adding to the address register *)

IsAddressAdd(w) == OpFamily(w) = 15 /\ OpKK(w) = 30

(* C15: a step on Fx1E sets I to (I + Vx) mod 65536; it sets register 15   *)
(* to 1 when the new I is greater than 0x1000 and otherwise leaves every   *)
(* register, register 15 included, as it was.                              *)
C15_AddressAdd ==
    [][StepTaken /\ IsAddressAdd(CurWord) =>
        /\ ~fault'
        /\ i' = (i + v[OpX(CurWord)]) % 65536
        /\ v' = IF i' > 4096 THEN [v EXCEPT ![15] = 1] ELSE v]_vars

(* I has gone from 0xFFF to the limit 0x1000 and the flag kept the 7 it had *)
C15_Witness ==
    /\ IsAddressAdd(last_instr)
    /\ steps = 4
    /\ i = 4096
    /\ v[0] = 1
    /\ v[15] = 7

----------------------------------------------------------------------------
(* The timers *)

IsSetDelay(w) == OpFamily(w) = 15 /\ OpKK(w) = 21
IsSetSound(w) == OpFamily(w) = 15 /\ OpKK(w) = 24

(* A timer after one tick *)
Ticked(t) == IF t > 0 THEN t - 1 ELSE 0

(* A timer that was set to set[1] when ticks was set[2], now *)
CountedDown(set, now) == IF set[1] > now - set[2] THEN set[1] - (now - set[2]) ELSE 0

(* C16: a call of run_instruction changes the delay timer only on Fx15 and *)
(* the sound timer only on Fx18, setting it to Vx; a tick (one call of     *)
(* handle_timers) takes 1 from each non-zero timer and leaves a zero timer *)
(* at zero, however many instructions the tick runs; nothing else changes  *)
(* a timer; a timer stays within 0..255; and a timer set to v stands at    *)
(* v minus the ticks made since, and at 0 from v ticks on.                 *)
C16_Timers ==
    [][/\ (steps' = steps + 1 =>
            /\ delay_timer' = IF pc + 1 < MemSize /\ IsSetDelay(CurWord)
                              THEN v[OpX(CurWord)] ELSE delay_timer
            /\ sound_timer' = IF pc + 1 < MemSize /\ IsSetSound(CurWord)
                              THEN v[OpX(CurWord)] ELSE sound_timer)
       /\ (ticks' = ticks + 1 =>
            /\ delay_timer' = Ticked(delay_timer)
            /\ sound_timer' = Ticked(sound_timer))
       /\ (steps' = steps /\ ticks' = ticks => UNCHANGED <<delay_timer, sound_timer>>)
       /\ delay_timer' \in 0..255
       /\ sound_timer' \in 0..255
       /\ delay_timer' = CountedDown(timer_set'.delay, ticks')
       /\ sound_timer' = CountedDown(timer_set'.sound, ticks')]_vars

(* At 4 instructions a tick both timers were set to 2 in the first tick    *)
(* and reached 0 in the third.                                             *)
C16_Witness ==
    /\ emu_speed = DEFAULT_EMU_FREQUENCY
    /\ timer_set = [delay |-> <<2, 1>>, sound |-> <<2, 1>>]
    /\ ticks = 3
    /\ steps = 8
    /\ host_at = "keys"
    /\ delay_timer = 0
    /\ sound_timer = 0

----------------------------------------------------------------------------
(* The refresh flag *)

IsClear(w) == w = 224
IsDraw(w) == OpFamily(w) = 13

(* The canvas shows the display: the cell <<x, y>> is filled exactly when  *)
(* row y, column x of the display is lit.                                  *)
Shows(canvas, disp) ==
    \A x \in 0..63, y \in 0..31 : (<<x, y>> \in canvas) <=> disp[y * 64 + x]

(* C17: a step on 00E0 or Dxyn that does not fail sets the refresh flag,   *)
(* a step on any other word leaves the display and the flag as they were;  *)
(* the call of should_refresh in refresh_screen clears the flag and        *)
(* redraws exactly when the flag was set, so it redraws exactly when a     *)
(* clear or a draw ran since its previous call; after refresh_screen the   *)
(* canvas shows the display, and neither changes until the tick's          *)
(* instructions run.                                                       *)
C17_RefreshFlag ==
    [][/\ (StepTaken /\ ~fault' =>
            IF IsClear(CurWord) \/ IsDraw(CurWord) THEN refresh'
            ELSE UNCHANGED <<display, refresh>>)
       /\ (host_at = "refresh" /\ host_at' = "reset" =>
            /\ refresh = drawn
            /\ ~refresh'
            /\ (~refresh => rendered' = rendered)
            /\ display' = display
            /\ Shows(rendered', display'))
       /\ (host_at \notin {"instructions", "refresh"} =>
            UNCHANGED <<display, refresh, rendered>>)
       /\ (host_at = "instructions" => UNCHANGED rendered)]_vars

(* The canvas shows the glyph 0 the display image has drawn *)
C17_Witness ==
    /\ Loaded(DisplayProgram)
    /\ host_at = "reset"
    /\ ~refresh
    /\ display[0] /\ display[64] /\ ~display[65]
    /\ <<0, 1>> \in rendered
    /\ <<1, 1>> \notin rendered
    /\ <<3, 4>> \in rendered

----------------------------------------------------------------------------
(* The audio *)

(* The loop stands after the timer handling of a tick *)
AfterTimerHandling == host_at \in {"keys", "instructions", "refresh", "reset"}

(* C18: at every point of the host loop after a tick's timer handling, the *)
(* instructions of the tick included, the tone is playing if the sound     *)
(* timer is not zero and the audio is stopped if it is zero.               *)
C18_AudioFollowsSoundTimer ==
    AfterTimerHandling => (audio_playing <=> sound_timer > 0)

----------------------------------------------------------------------------
(* Memory indices *)

(* The largest offset from I at which a step on word w reads or writes     *)
(* memory, and -1 if it uses no address computed from I: the n rows of a   *)
(* draw, the three digits of Fx33, the registers 0..x of Fx55 and Fx65.    *)
LastOffset(w) ==
    IF OpFamily(w) = 13 THEN OpN(w) - 1
    ELSE IF OpFamily(w) = 15 /\ OpKK(w) = 51 THEN 2
    ELSE IF OpFamily(w) = 15 /\ OpKK(w) \in {85, 101} THEN OpX(w)
    ELSE 0 - 1

(* C19: in every reachable state the step to come uses only memory indices *)
(* within 0..4095: pc and pc + 1 for the fetch, and I + offset for every   *)
(* offset a draw, Fx33, Fx55 or Fx65 under the program counter uses.       *)
C19_MemoryIndicesInRange ==
    /\ pc >= 0
    /\ pc + 1 <= MemSize - 1
    /\ (LastOffset(CurWord) >= 0 => i + LastOffset(CurWord) <= MemSize - 1)

----------------------------------------------------------------------------
(* The flag register after arithmetic *)

ReportsFlag(w) == OpFamily(w) = 8 /\ OpN(w) \in {4, 5, 6, 7, 14}

(* The carry of 8xy4 and the no-borrow of 8xy5 and 8xy7, from the register *)
(* values before the step                                                  *)
CarryOrNoBorrow(w) ==
    CASE OpN(w) = 4 -> IF v[OpX(w)] + v[OpY(w)] > 255 THEN 1 ELSE 0
      [] OpN(w) = 5 -> IF v[OpX(w)] >= v[OpY(w)] THEN 1 ELSE 0
      [] OpN(w) = 7 -> IF v[OpY(w)] >= v[OpX(w)] THEN 1 ELSE 0

(* C20: after a step on 8xy4, 8xy5, 8xy6, 8xy7 or 8xyE, for every x and y, *)
(* x = 15 included, register 15 holds the flag: 0 or 1, and for the add    *)
(* and the subtractions the carry or no-borrow of the operands, not the    *)
(* arithmetic result.                                                      *)
C20_FlagSurvivesResult ==
    [][StepTaken /\ ReportsFlag(CurWord) =>
        /\ v'[15] \in {0, 1}
        /\ (OpN(CurWord) \in {4, 5, 7} => v'[15] = CarryOrNoBorrow(CurWord))]_vars

----------------------------------------------------------------------------
(* The flag register after a shift *)

IsShift(w) == OpFamily(w) = 8 /\ OpN(w) \in {6, 14}

(* The value a shift shifts: Vy on the original machine, Vx in             *)
(* compatibility mode                                                      *)
Shifted(w) == IF c48_mode THEN v[OpX(w)] ELSE v[OpY(w)]

(* C21: after a step on 8xy6 with x other than 15 register 15 equals the   *)
(* least-significant bit of the value that was shifted, and after a step   *)
(* on 8xyE its most-significant bit, in both compatibility modes.          *)
C21_ShiftFlagIsBitShiftedOut ==
    [][StepTaken /\ IsShift(CurWord) /\ OpX(CurWord) # 15 =>
        v'[15] = IF OpN(CurWord) = 6 THEN Shifted(CurWord) % 2
                 ELSE Shifted(CurWord) \div 128]_vars

----------------------------------------------------------------------------
(* The add and the subtractions *)

IsAddOrSub(w) == OpFamily(w) = 8 /\ OpN(w) \in {4, 5, 7}

(* The result of 8xy4, 8xy5, 8xy7 on the register values before the step *)
Arithmetic(w) ==
    CASE OpN(w) = 4 -> (v[OpX(w)] + v[OpY(w)]) % 256
      [] OpN(w) = 5 -> (v[OpX(w)] - v[OpY(w)] + 256) % 256
      [] OpN(w) = 7 -> (v[OpY(w)] - v[OpX(w)] + 256) % 256

(* C22: a step on 8xy4, 8xy5 or 8xy7 with x in 0..14 and any y, y = 15     *)
(* included, does not fail, sets Vx to (Vx + Vy) mod 256, (Vx - Vy) mod    *)
(* 256 or (Vy - Vx) mod 256 of the values before the step, and sets        *)
(* register 15 to 1 if Vx + Vy > 255, Vx >= Vy or Vy >= Vx respectively    *)
(* and to 0 otherwise.                                                     *)
C22_AddSubFlags ==
    [][StepTaken /\ IsAddOrSub(CurWord) /\ OpX(CurWord) # 15 =>
        /\ ~fault'
        /\ v'[OpX(CurWord)] = Arithmetic(CurWord)
        /\ v'[15] = CarryOrNoBorrow(CurWord)]_vars

(* 8xy5 with y = 15 has taken V15 = 1 from V4 = 0: a borrow *)
C22_Witness ==
    /\ IsAddOrSub(last_instr)
    /\ OpN(last_instr) = 5
    /\ OpX(last_instr) = 4
    /\ OpY(last_instr) = 15
    /\ steps = 3
    /\ v[4] = 255
    /\ v[15] = 0

----------------------------------------------------------------------------
(* A draw inside the grid *)

DrawColumn(w) == v[OpX(w)] % 64
DrawRow(w) == v[OpY(w)] % 32

(* The sprite of the draw w lies wholly inside the grid *)
InsideGrid(w) == DrawColumn(w) <= 56 /\ DrawRow(w) + OpN(w) <= 32

(* Cell p lies in the 8 by n rectangle of the draw w *)
InRectangle(w, p) ==
    /\ p \div 64 >= DrawRow(w)
    /\ p \div 64 < DrawRow(w) + OpN(w)
    /\ p % 64 >= DrawColumn(w)
    /\ p % 64 < DrawColumn(w) + 8

(* The sprite bit the draw w puts on cell p of its rectangle *)
BitOn(w, p) ==
    SpriteBit(memory[i + ((p \div 64) - DrawRow(w))], (p % 64) - DrawColumn(w))

(* C23: a step on Dxyn whose sprite lies wholly inside the grid does not   *)
(* fail; it toggles the cell (r + row) * 64 + c + k exactly when bit k,    *)
(* most-significant first, of memory[I + row] is 1, and leaves every other *)
(* cell as it was; register 15 ends as 1 if a toggled cell was lit before  *)
(* the draw and as 0 otherwise; memory and I are unchanged.                *)
C23_DrawInsideGrid ==
    [][StepTaken /\ IsDraw(CurWord) /\ InsideGrid(CurWord) =>
        /\ ~fault'
        /\ \A p \in 0..2047 :
              display'[p] = IF InRectangle(CurWord, p) /\ BitOn(CurWord, p) = 1
                            THEN ~display[p] ELSE display[p]
        /\ v'[15] = IF \E p \in 0..2047 :
                           InRectangle(CurWord, p) /\ BitOn(CurWord, p) = 1 /\ display[p]
                     THEN 1 ELSE 0
        /\ memory' = memory
        /\ i' = i]_vars

(* Glyph 1 has been drawn over glyph 0: the cell they share went out, the  *)
(* others of glyph 1 came on, and the flag is 1.                           *)
C23_Witness ==
    /\ Loaded(OverlapProgram(FontStart, FontStart + 5, 5))
    /\ steps = 4
    /\ IsDraw(last_instr)
    /\ ~display[2]
    /\ display[0]
    /\ display[64 + 1] /\ display[64 + 2]
    /\ v[15] = 1

----------------------------------------------------------------------------
(* The key skips *)

IsSkipIfPressed(w) == OpFamily(w) = 14 /\ OpKK(w) = 158
IsSkipIfNotPressed(w) == OpFamily(w) = 14 /\ OpKK(w) = 161

(* The register value is a member of the input set *)
Pressed(val) == val \in {input[k] : k \in 1..Len(input)}

(* C24: a step on Ex9E moves the program counter by 4 if Vx is a member of *)
(* the input set and by 2 if not, a step on ExA1 by 4 if it is not and by  *)
(* 2 if it is; neither fails nor changes the registers, I, memory or the   *)
(* input set.  The input set changes only in register_pressed_keys, which  *)
(* rebuilds it from the keys held down (X and 4, or V with an unmapped     *)
(* key, or none); the instructions of the tick all see that set.           *)
C24_KeySkips ==
    [][/\ (StepTaken /\ IsSkipIfPressed(CurWord) =>
            /\ ~fault'
            /\ pc' = IF Pressed(v[OpX(CurWord)]) THEN pc + 4 ELSE pc + 2
            /\ UNCHANGED <<v, i, memory, input>>)
       /\ (StepTaken /\ IsSkipIfNotPressed(CurWord) =>
            /\ ~fault'
            /\ pc' = IF Pressed(v[OpX(CurWord)]) THEN pc + 2 ELSE pc + 4
            /\ UNCHANGED <<v, i, memory, input>>)
       /\ (host_at = "keys" => input' \in {<<>>, <<0, 12>>, <<15>>})
       /\ (host_at # "keys" => input' = input)]_vars

(* Ex9E has skipped on the key C, the second of the two keys held down *)
C24_Witness ==
    /\ IsSkipIfPressed(last_instr)
    /\ last_pc = ProgramStart + 2
    /\ pc = ProgramStart + 6
    /\ input = <<0, 12>>
    /\ v[OpX(last_instr)] = 12

----------------------------------------------------------------------------
(* The bulk transfers *)

IsStore(w) == OpFamily(w) = 15 /\ OpKK(w) = 85
IsLoad(w) == OpFamily(w) = 15 /\ OpKK(w) = 101

(* Address a is one of I .. I + x *)
InTransfer(w, a) == a >= i /\ a <= i + OpX(w)

(* C25: with I + x <= 0xFFF a step on Fx55 does not fail, makes            *)
(* memory[I + k] = Vk for k in 0..x, and changes no other memory cell, no  *)
(* register and not I; a step on Fx65 does not fail, makes Vk =            *)
(* memory[I + k] for k in 0..x, and changes no register above x, no memory *)
(* cell and not I.  After the image that stores V0..Vx at an address and   *)
(* loads them from the same address, registers 0..x hold the stored        *)
(* values: Vx the value loaded into it, the registers below it 0.          *)
C25_BulkTransfer ==
    [][/\ (StepTaken /\ IsStore(CurWord) /\ i + OpX(CurWord) <= 4095 =>
            /\ ~fault'
            /\ \A a \in 0..(MemSize - 1) :
                  memory'[a] = IF InTransfer(CurWord, a) THEN v[a - i] ELSE memory[a]
            /\ v' = v
            /\ i' = i)
       /\ (StepTaken /\ IsLoad(CurWord) /\ i + OpX(CurWord) <= 4095 =>
            /\ ~fault'
            /\ \A k \in 0..15 :
                  v'[k] = IF k <= OpX(CurWord) THEN memory[i + k] ELSE v[k]
            /\ memory' = memory
            /\ i' = i)
       /\ \A x \in TransferRegs, a \in TransferVals, addr \in TransferAddrs :
            Loaded(TransferProgram(x, a, addr, addr)) /\ addr + x <= 4095 /\ steps' = 5 =>
                /\ ~fault'
                /\ \A k \in 0..x : v'[k] = IF k = x THEN a ELSE 0]_vars

(* Sixteen registers were stored over the last bytes of memory and loaded  *)
(* back from there                                                         *)
C25_Witness ==
    /\ Loaded(TransferProgram(15, 255, 4080, 4080))
    /\ steps = 5
    /\ IsLoad(last_instr)
    /\ memory[4095] = 255
    /\ memory[4080] = 0
    /\ v[15] = 255
    /\ i = 4080

----------------------------------------------------------------------------
(* A waiting step *)

(* C26: a step on Fx0A with an empty input set leaves every register, I,   *)
(* the memory, the stack, the display, both timers and the program counter *)
(* as they were.                                                           *)
C26_WaitingStepHasNoEffect ==
    [][StepTaken /\ IsWaitKey(CurWord) /\ input = <<>> =>
        UNCHANGED <<v, i, memory, stack, display, delay_timer, sound_timer, pc>>]_vars

----------------------------------------------------------------------------
(* Pausing and stepping in debug mode *)

(* Not running and no step pending, in debug mode *)
Paused == debug_mode /\ ~running /\ ~step_exec

====
